---- MODULE Spec2Model ----
(***************************************************************************)
(* A model of src/BankAccount.py: one BankAccount object, the methods it   *)
(* exposes, and the clock the methods read.                                *)
(*                                                                         *)
(* A method is an operator from the object (a record of its fields) and    *)
(* the arguments to a record [acct, result]: the object as the method      *)
(* leaves it and "ok" or the name of the exception it raises.  A method    *)
(* that raises after it has changed a field returns the changed object.    *)
(* Amounts and balances are integers; times are whole seconds.             *)
(***************************************************************************)
EXTENDS Integers, FiniteSets, Sequences, TLC

\* ---------------------------------------------------------------- bounds
MaxCalls == 3            \* method calls in one run
MaxNow == 12             \* the clock stops advancing here
MaxAmount == 2           \* amounts are drawn from -1 .. MaxAmount
MaxInitialBalance == 1   \* initial balances are drawn from 0 .. MaxInitialBalance

\* ------------------------------------------------------- program constants
INACTIVITY_PERIOD_SECONDS == 10

StartTime == 0
Amounts == -1 .. MaxAmount
InitialBalances == 0 .. MaxInitialBalance
Holders == {"Saka"}
\* how far set_last_activity_time backdates the activity time (line 225
\* backdates by INACTIVITY_PERIOD_SECONDS + 1)
Backdates == (INACTIVITY_PERIOD_SECONDS - 1) .. (INACTIVITY_PERIOD_SECONDS + 1)
\* an argument of set_last_activity_time: a datetime, or an object of another type
Datetime(v) == [is_datetime |-> TRUE, value |-> v]
NotADatetime == [is_datetime |-> FALSE, value |-> 0]

VARIABLES
  acct,           \* the BankAccount object: its fields, and notified, the
                  \* number of times _trigger_reactivation_action has run
  now,            \* datetime.datetime.now()
  calls,          \* number of method calls made so far
  last,           \* the last call: method, arguments, outcome, the object and
                  \* the clock before it
  close_called,   \* close_account has been called
  reactivations,  \* number of calls that took the account from Inactive to Active
  failed_before,  \* whether the call before the last one was a deposit or a
                  \* withdraw that failed on an account that was not Closed,
                  \* and the balance before that call
  threads         \* the withdraw calls in progress when calls run concurrently:
                  \* position, amount and outcome of each (none in a
                  \* sequential run)

vars == <<acct, now, calls, last, close_called, reactivations, failed_before, threads>>

\* ------------------------------------------------------------ the object
Ok(self) == [acct |-> self, result |-> "ok"]
Raise(self, exc) == [acct |-> self, result |-> exc]

\* the status the two flags stand for
Status(self) ==
  IF self.is_closed /\ ~self.is_active THEN "Closed"
  ELSE IF self.is_active /\ ~self.is_closed THEN "Active"
  ELSE IF ~self.is_active /\ ~self.is_closed THEN "Inactive"
  ELSE "Invalid"

\* __init__ as it would be with the balance test written <= 0
init_rejects_zero_balance(initial_balance, account_holder, t) ==
  IF initial_balance <= 0 THEN [acct |-> <<>>, result |-> "ValueError"]
  ELSE Ok([balance |-> initial_balance,
           account_holder |-> account_holder,
           is_active |-> TRUE,
           is_closed |-> FALSE,
           last_activity_time |-> t,
           notified |-> 0])

__init__(initial_balance, account_holder, t) ==
  IF initial_balance < 0 THEN [acct |-> <<>>, result |-> "ValueError"]
  ELSE Ok([balance |-> initial_balance,
           account_holder |-> account_holder,
           is_active |-> TRUE,
           is_closed |-> FALSE,
           last_activity_time |-> t,
           notified |-> 0])

_update_activity_time(self, t) == [self EXCEPT !.last_activity_time = t]

_trigger_reactivation_action(self) == [self EXCEPT !.notified = @ + 1]

\* _reactivate as it would be without the call of the reactivation action
_reactivate_silent(self) ==
  IF ~self.is_active /\ ~self.is_closed
  THEN [self EXCEPT !.is_active = TRUE]
  ELSE self

_reactivate(self) ==
  IF ~self.is_active /\ ~self.is_closed
  THEN _trigger_reactivation_action([self EXCEPT !.is_active = TRUE])
  ELSE self

\* _check_status_for_operation as it would be if it did not reject a closed
\* account and set the flag itself
_check_status_for_operation_no_closed_check(self) ==
  IF ~self.is_active
  THEN Ok(_trigger_reactivation_action([self EXCEPT !.is_active = TRUE]))
  ELSE Ok(self)

\* _check_status_for_operation as it would be if it ran the reactivation action
\* on every operation attempt
_check_status_for_operation_always_notifies(self) ==
  IF self.is_closed THEN Raise(self, "AccountClosedError")
  ELSE IF ~self.is_active THEN Ok(_reactivate(self))
  ELSE Ok(_trigger_reactivation_action(self))

\* _check_status_for_operation as it would be if it raised AccountInactiveError
\* (lines 12-17) on an inactive account
_check_status_for_operation_rejects_inactive(self) ==
  IF self.is_closed THEN Raise(self, "AccountClosedError")
  ELSE IF ~self.is_active THEN Raise(self, "AccountInactiveError")
  ELSE Ok(self)

_check_status_for_operation(self) ==
  IF self.is_closed THEN Raise(self, "AccountClosedError")
  ELSE IF ~self.is_active THEN Ok(_reactivate(self))
  ELSE Ok(self)

\* deposit as it would be with the amount test written amount < 0
deposit_accepts_zero(self, amount, t) ==
  IF amount < 0 THEN Raise(self, "ValueError")
  ELSE LET c == _check_status_for_operation(self) IN
       IF c.result # "ok" THEN c
       ELSE Ok(_update_activity_time([c.acct EXCEPT !.balance = @ + amount], t))

\* deposit as it would be without the call of _update_activity_time
deposit_no_activity_update(self, amount, t) ==
  IF amount <= 0 THEN Raise(self, "ValueError")
  ELSE LET c == _check_status_for_operation(self) IN
       IF c.result # "ok" THEN c
       ELSE Ok([c.acct EXCEPT !.balance = @ + amount])

\* deposit as it would be if it updated the activity time before the status check
deposit_stamps_before_status_check(self, amount, t) ==
  IF amount <= 0 THEN Raise(self, "ValueError")
  ELSE LET c == _check_status_for_operation(_update_activity_time(self, t)) IN
       IF c.result # "ok" THEN c
       ELSE Ok([c.acct EXCEPT !.balance = @ + amount])

deposit(self, amount, t) ==
  IF amount <= 0 THEN Raise(self, "ValueError")
  ELSE LET c == _check_status_for_operation(self) IN
       IF c.result # "ok" THEN c
       ELSE Ok(_update_activity_time([c.acct EXCEPT !.balance = @ + amount], t))

\* withdraw as it would be without the funds check
withdraw_no_funds_check(self, amount, is_verified, t) ==
  IF amount <= 0 THEN Raise(self, "ValueError")
  ELSE IF ~is_verified THEN Raise(self, "VerificationRequiredError")
  ELSE LET c == _check_status_for_operation(self) IN
       IF c.result # "ok" THEN c
       ELSE Ok(_update_activity_time([c.acct EXCEPT !.balance = @ - amount], t))

\* withdraw as it would be if it updated the activity time before the funds check
withdraw_early_activity_update(self, amount, is_verified, t) ==
  IF amount <= 0 THEN Raise(self, "ValueError")
  ELSE IF ~is_verified THEN Raise(self, "VerificationRequiredError")
  ELSE LET c == _check_status_for_operation(self) IN
       IF c.result # "ok" THEN c
       ELSE LET a == _update_activity_time(c.acct, t) IN
            IF amount > a.balance THEN Raise(a, "InsufficientFundsError")
            ELSE Ok([a EXCEPT !.balance = @ - amount])

\* withdraw as it would be if it checked the status before the verification
withdraw_status_before_verification(self, amount, is_verified, t) ==
  IF amount <= 0 THEN Raise(self, "ValueError")
  ELSE LET c == _check_status_for_operation(self) IN
       IF c.result # "ok" THEN c
       ELSE IF ~is_verified THEN Raise(c.acct, "VerificationRequiredError")
       ELSE IF amount > c.acct.balance THEN Raise(c.acct, "InsufficientFundsError")
       ELSE Ok(_update_activity_time([c.acct EXCEPT !.balance = @ - amount], t))

\* withdraw as it would be with the funds check written amount >= balance
withdraw_rejects_whole_balance(self, amount, is_verified, t) ==
  IF amount <= 0 THEN Raise(self, "ValueError")
  ELSE IF ~is_verified THEN Raise(self, "VerificationRequiredError")
  ELSE LET c == _check_status_for_operation(self) IN
       IF c.result # "ok" THEN c
       ELSE IF amount >= c.acct.balance THEN Raise(c.acct, "InsufficientFundsError")
       ELSE Ok(_update_activity_time([c.acct EXCEPT !.balance = @ - amount], t))

\* withdraw as it would be if it subtracted first and then tested for a
\* negative balance
withdraw_subtracts_before_funds_check(self, amount, is_verified, t) ==
  IF amount <= 0 THEN Raise(self, "ValueError")
  ELSE IF ~is_verified THEN Raise(self, "VerificationRequiredError")
  ELSE LET c == _check_status_for_operation(self) IN
       IF c.result # "ok" THEN c
       ELSE LET a == [c.acct EXCEPT !.balance = @ - amount] IN
            IF a.balance < 0 THEN Raise(a, "InsufficientFundsError")
            ELSE Ok(_update_activity_time(a, t))

withdraw(self, amount, is_verified, t) ==
  IF amount <= 0 THEN Raise(self, "ValueError")
  ELSE IF ~is_verified THEN Raise(self, "VerificationRequiredError")
  ELSE LET c == _check_status_for_operation(self) IN
       IF c.result # "ok" THEN c
       ELSE IF amount > c.acct.balance THEN Raise(c.acct, "InsufficientFundsError")
       ELSE Ok(_update_activity_time([c.acct EXCEPT !.balance = @ - amount], t))

\* close_account as it would be without the assignment of _is_closed
close_account_flag_forgotten(self) ==
  IF self.is_closed THEN Ok(self)
  ELSE Ok([self EXCEPT !.is_active = FALSE])

\* close_account as it would be with the balance cleared on close (line 177)
close_account_clears_balance(self) ==
  IF self.is_closed THEN Ok(self)
  ELSE Ok([self EXCEPT !.is_closed = TRUE, !.is_active = FALSE, !.balance = 0])

\* close_account as it would be without the assignment of _is_active
close_account_stays_active(self) ==
  IF self.is_closed THEN Ok(self)
  ELSE Ok([self EXCEPT !.is_closed = TRUE])

close_account(self) ==
  IF self.is_closed THEN Ok(self)
  ELSE Ok([self EXCEPT !.is_closed = TRUE, !.is_active = FALSE])

_deactivate(self) ==
  IF self.is_active /\ ~self.is_closed
  THEN [self EXCEPT !.is_active = FALSE]
  ELSE self

\* check_for_deactivation as it would be with the test written >=
check_for_deactivation_at_period(self, t) ==
  IF ~self.is_active \/ self.is_closed THEN Ok(self)
  ELSE IF t - self.last_activity_time >= INACTIVITY_PERIOD_SECONDS
       THEN Ok(_deactivate(self))
       ELSE Ok(self)

\* check_for_deactivation as it would be if it recorded the check as activity
check_for_deactivation_stamps_time(self, t) ==
  IF ~self.is_active \/ self.is_closed THEN Ok(_update_activity_time(self, t))
  ELSE IF t - self.last_activity_time > INACTIVITY_PERIOD_SECONDS
       THEN Ok(_deactivate(self))
       ELSE Ok(self)

check_for_deactivation(self, t) ==
  IF ~self.is_active \/ self.is_closed THEN Ok(self)
  ELSE IF t - self.last_activity_time > INACTIVITY_PERIOD_SECONDS
       THEN Ok(_deactivate(self))
       ELSE Ok(self)

force_deactivate(self) ==
  IF ~self.is_closed THEN Ok([self EXCEPT !.is_active = FALSE])
  ELSE Ok(self)

set_last_activity_time(self, dt) ==
  IF dt.is_datetime THEN Ok([self EXCEPT !.last_activity_time = dt.value])
  ELSE Raise(self, "TypeError")

\* ------------------------------------------------------------- the runs
NoFailure == [failed |-> FALSE, balance |-> 0]

\* what failed_before records of the call c
FailureOf(c) ==
  IF c.op \in {"deposit", "withdraw"} /\ c.result # "ok" /\ Status(c.pre) # "Closed"
  THEN [failed |-> TRUE, balance |-> c.pre.balance]
  ELSE NoFailure

NoCall(self, t) ==
  [op |-> "__init__", amount |-> 0, is_verified |-> FALSE, result |-> "ok",
   pre |-> self, time |-> t]

Init ==
  \E initial_balance \in InitialBalances, account_holder \in Holders :
    LET r == __init__(initial_balance, account_holder, StartTime) IN
    /\ r.result = "ok"
    /\ acct = r.acct
    /\ now = StartTime
    /\ calls = 0
    /\ last = NoCall(r.acct, StartTime)
    /\ close_called = FALSE
    /\ reactivations = 0
    /\ failed_before = NoFailure
    /\ threads = <<>>

\* a call of method op that returns r: the object becomes r.acct
Call(op, amount, is_verified, r) ==
  /\ calls < MaxCalls
  /\ acct' = r.acct
  /\ calls' = calls + 1
  /\ last' = [op |-> op, amount |-> amount, is_verified |-> is_verified,
              result |-> r.result, pre |-> acct, time |-> now]
  /\ close_called' = (close_called \/ op = "close_account")
  /\ reactivations' = reactivations +
       (IF Status(acct) = "Inactive" /\ Status(r.acct) = "Active" THEN 1 ELSE 0)
  /\ failed_before' = FailureOf(last)
  /\ now' = now
  /\ threads' = threads

Deposit ==
  \E amount \in Amounts : Call("deposit", amount, FALSE, deposit(acct, amount, now))

Withdraw ==
  \E amount \in Amounts, is_verified \in BOOLEAN :
    Call("withdraw", amount, is_verified, withdraw(acct, amount, is_verified, now))

CloseAccount == Call("close_account", 0, FALSE, close_account(acct))

CheckForDeactivation ==
  Call("check_for_deactivation", 0, FALSE, check_for_deactivation(acct, now))

ForceDeactivate == Call("force_deactivate", 0, FALSE, force_deactivate(acct))

SetLastActivityTime ==
  \E dt \in {Datetime(now - d) : d \in Backdates} \cup {NotADatetime} :
    Call("set_last_activity_time", 0, FALSE, set_last_activity_time(acct, dt))

\* time passes between calls
Tick ==
  /\ now < MaxNow
  /\ now' = now + 1
  /\ UNCHANGED <<acct, calls, last, close_called, reactivations, failed_before, threads>>

Next ==
  \/ Deposit
  \/ Withdraw
  \/ CloseAccount
  \/ CheckForDeactivation
  \/ ForceDeactivate
  \/ SetLastActivityTime
  \/ Tick

Spec == Init /\ [][Next]_vars

\* ------------------------------------------------------- construction
\* the arguments given to the constructor: negative balances too, and the
\* default holder name
ConstructorBalances == (-MaxInitialBalance - 1) .. MaxInitialBalance
ConstructorHolders == {"Saka", "Unknown"}

\* no object yet: acct is <<>>, as it is after a constructor that raised
NotConstructed(t) ==
  [op |-> "none", amount |-> 0, is_verified |-> FALSE, result |-> "none",
   pre |-> <<>>, time |-> t, account_holder |-> "none"]

InitNew ==
  /\ acct = <<>>
  /\ now = StartTime
  /\ calls = 0
  /\ last = NotConstructed(StartTime)
  /\ close_called = FALSE
  /\ reactivations = 0
  /\ failed_before = NoFailure
  /\ threads = <<>>

\* BankAccount(initial_balance, account_holder); last.amount is the initial
\* balance given and last.account_holder the name given
Construct ==
  \E initial_balance \in ConstructorBalances, account_holder \in ConstructorHolders :
    LET r == __init__(initial_balance, account_holder, now) IN
    /\ last.op = "none"
    /\ acct' = r.acct
    /\ last' = [op |-> "__init__", amount |-> initial_balance, is_verified |-> FALSE,
                result |-> r.result, pre |-> <<>>, time |-> now,
                account_holder |-> account_holder]
    /\ UNCHANGED <<now, calls, close_called, reactivations, failed_before, threads>>

NextNew ==
  \/ Construct
  \/ Tick

SpecNew == InitNew /\ [][NextNew]_vars

\* ------------------------------------------- concurrent withdraw calls
\* Two callers run withdraw(amount, is_verified=True) on the same object with
\* no lock between them (the class has none).  A step of a call runs the code
\* up to its next read or store of a field of the object, its next read of
\* the clock or its next print.  The positions of a call:
\*   "call"       not started
\*   "closed"     before the read of _is_closed in line 90
\*   "active"     before the read of _is_active in line 93
\*   "reactivate" before the read of _is_active in line 98
\*   "reactivate_closed"  before the read of _is_closed in line 98
\*   "activate"   before the store of _is_active in line 99
\*   "notify"     before the print of line 107
\*   "funds"      before the read of _balance in line 155
\*   "subtract"   before the read of _balance in line 159
\*   "store"      before the store of _balance in line 159
\*   "stamp"      before the read of the clock in line 82
\*   "stamp_store"  before the store of _last_activity_time in line 82
\*   "done"       returned or raised
\* held is the value the call has computed and not yet stored.
Threads == {1, 2}
ThreadAmounts == 1 .. MaxAmount
\* the call made on the new object before the two callers start: none (the
\* account is Active), force_deactivate (Inactive) or close_account (Closed)
Preparations == {"none", "force_deactivate", "close_account"}

Prepare(self, preparation) ==
  IF preparation = "force_deactivate" THEN force_deactivate(self).acct
  ELSE IF preparation = "close_account" THEN close_account(self).acct
  ELSE self

\* lines 144-149 of withdraw: the amount test and the verification test
withdraw_argument_checks(amount, is_verified) ==
  IF amount <= 0 THEN "ValueError"
  ELSE IF ~is_verified THEN "VerificationRequiredError"
  ELSE "ok"

InitConc ==
  \E initial_balance \in InitialBalances, account_holder \in Holders,
     amounts \in [Threads -> ThreadAmounts], preparation \in Preparations :
    LET r == __init__(initial_balance, account_holder, StartTime) IN
    /\ r.result = "ok"
    /\ acct = Prepare(r.acct, preparation)
    /\ now = StartTime
    /\ calls = 0
    /\ last = NoCall(Prepare(r.acct, preparation), StartTime)
    /\ close_called = (preparation = "close_account")
    /\ reactivations = 0
    /\ failed_before = NoFailure
    /\ threads = [t \in Threads |->
                    [pc |-> "call", amount |-> amounts[t], result |-> "none",
                     held |-> 0]]

\* thread t moves to position pc, with outcome result once it is done
Goto(t, pc, result) ==
  threads' = [threads EXCEPT ![t] = [@ EXCEPT !.pc = pc, !.result = result]]

\* lines 144-149
WithdrawChecks(t) ==
  /\ threads[t].pc = "call"
  /\ LET c == withdraw_argument_checks(threads[t].amount, TRUE) IN
     IF c # "ok" THEN Goto(t, "done", c) ELSE Goto(t, "closed", "none")
  /\ UNCHANGED <<acct, now, calls, last, close_called, reactivations, failed_before>>

\* lines 90-91
WithdrawCheckClosed(t) ==
  /\ threads[t].pc = "closed"
  /\ IF acct.is_closed THEN Goto(t, "done", "AccountClosedError")
                       ELSE Goto(t, "active", "none")
  /\ UNCHANGED <<acct, now, calls, last, close_called, reactivations, failed_before>>

\* lines 93-94
WithdrawCheckActive(t) ==
  /\ threads[t].pc = "active"
  /\ IF ~acct.is_active THEN Goto(t, "reactivate", "none")
                        ELSE Goto(t, "funds", "none")
  /\ UNCHANGED <<acct, now, calls, last, close_called, reactivations, failed_before>>

\* line 98, not self._is_active
WithdrawReactivateCheckActive(t) ==
  /\ threads[t].pc = "reactivate"
  /\ IF ~acct.is_active THEN Goto(t, "reactivate_closed", "none")
                        ELSE Goto(t, "funds", "none")
  /\ UNCHANGED <<acct, now, calls, last, close_called, reactivations, failed_before>>

\* line 98, not self._is_closed
WithdrawReactivateCheckClosed(t) ==
  /\ threads[t].pc = "reactivate_closed"
  /\ IF ~acct.is_closed THEN Goto(t, "activate", "none")
                        ELSE Goto(t, "funds", "none")
  /\ UNCHANGED <<acct, now, calls, last, close_called, reactivations, failed_before>>

\* line 99
WithdrawActivate(t) ==
  /\ threads[t].pc = "activate"
  /\ acct' = [acct EXCEPT !.is_active = TRUE]
  /\ reactivations' = reactivations +
       (IF Status(acct) = "Inactive" /\ Status(acct') = "Active" THEN 1 ELSE 0)
  /\ Goto(t, "notify", "none")
  /\ UNCHANGED <<now, calls, last, close_called, failed_before>>

\* lines 100 and 107
WithdrawNotify(t) ==
  /\ threads[t].pc = "notify"
  /\ acct' = _trigger_reactivation_action(acct)
  /\ Goto(t, "funds", "none")
  /\ UNCHANGED <<now, calls, last, close_called, reactivations, failed_before>>

\* lines 155-156
WithdrawCheckFunds(t) ==
  /\ threads[t].pc = "funds"
  /\ IF threads[t].amount > acct.balance
     THEN Goto(t, "done", "InsufficientFundsError")
     ELSE Goto(t, "subtract", "none")
  /\ UNCHANGED <<acct, now, calls, last, close_called, reactivations, failed_before>>

\* thread t moves to position pc holding the value v
Hold(t, pc, v) ==
  threads' = [threads EXCEPT ![t] = [@ EXCEPT !.pc = pc, !.held = v]]

\* line 159, the read of _balance and the subtraction
WithdrawSubtract(t) ==
  /\ threads[t].pc = "subtract"
  /\ Hold(t, "store", acct.balance - threads[t].amount)
  /\ UNCHANGED <<acct, now, calls, last, close_called, reactivations, failed_before>>

\* line 159, the store of _balance
WithdrawStoreBalance(t) ==
  /\ threads[t].pc = "store"
  /\ acct' = [acct EXCEPT !.balance = threads[t].held]
  /\ Goto(t, "stamp", "none")
  /\ UNCHANGED <<now, calls, last, close_called, reactivations, failed_before>>

\* line 160 up to the read of the clock in line 82
WithdrawReadClock(t) ==
  /\ threads[t].pc = "stamp"
  /\ Hold(t, "stamp_store", now)
  /\ UNCHANGED <<acct, now, calls, last, close_called, reactivations, failed_before>>

\* the store of _last_activity_time in line 82, and the return
WithdrawStamp(t) ==
  /\ threads[t].pc = "stamp_store"
  /\ acct' = _update_activity_time(acct, threads[t].held)
  /\ Goto(t, "done", "ok")
  /\ UNCHANGED <<now, calls, last, close_called, reactivations, failed_before>>

NextConc ==
  \/ \E t \in Threads : WithdrawChecks(t)
  \/ \E t \in Threads : WithdrawCheckClosed(t)
  \/ \E t \in Threads : WithdrawCheckActive(t)
  \/ \E t \in Threads : WithdrawReactivateCheckActive(t)
  \/ \E t \in Threads : WithdrawReactivateCheckClosed(t)
  \/ \E t \in Threads : WithdrawActivate(t)
  \/ \E t \in Threads : WithdrawNotify(t)
  \/ \E t \in Threads : WithdrawCheckFunds(t)
  \/ \E t \in Threads : WithdrawSubtract(t)
  \/ \E t \in Threads : WithdrawStoreBalance(t)
  \/ \E t \in Threads : WithdrawReadClock(t)
  \/ \E t \in Threads : WithdrawStamp(t)
  \/ Tick

SpecConc == InitConc /\ [][NextConc]_vars

\* the amount thread t has withdrawn once it has returned
Withdrawn(t) == IF threads[t].result = "ok" THEN threads[t].amount ELSE 0

\* ------------------------------------------------------------ properties
Failed == last.op \in {"deposit", "withdraw"} /\ last.result # "ok"

\* C1: in every state reachable from a constructed account the balance is
\* not negative.
C1_BalanceNonNegative == acct.balance >= 0

\* a verified withdrawal of the whole balance has succeeded
C1_Witness ==
  /\ last.op = "withdraw" /\ last.result = "ok"
  /\ last.amount = last.pre.balance
  /\ acct.balance = 0

\* C2: once the account is Closed, every step leaves it Closed.
C2_ClosedIsTerminal ==
  [][Status(acct) = "Closed" => Status(acct') = "Closed"]_vars

\* force_deactivate has been called on a Closed account
C2_Witness ==
  /\ last.op = "force_deactivate"
  /\ Status(last.pre) = "Closed"
  /\ Status(acct) = "Closed"

\* C3 as stated: a deposit or withdraw call that fails leaves the balance, the
\* status, the activity time and the number of notifier invocations as they
\* were.
C3_NoMutationOnFailure ==
  Failed =>
    /\ acct.balance = last.pre.balance
    /\ Status(acct) = Status(last.pre)
    /\ acct.last_activity_time = last.pre.last_activity_time
    /\ acct.notified = last.pre.notified

\* C3 as amended: a deposit or withdraw call that fails leaves the balance and
\* the activity time as they were; it leaves the status and the number of
\* notifier invocations as they were too, except that a withdraw that fails
\* with InsufficientFundsError on an Inactive account has reactivated the
\* account and invoked the notifier once.
C3_FailureKeepsBalanceAndTime ==
  Failed =>
    /\ acct.balance = last.pre.balance
    /\ acct.last_activity_time = last.pre.last_activity_time
    /\ acct.account_holder = last.pre.account_holder
    /\ IF last.result = "InsufficientFundsError" /\ Status(last.pre) = "Inactive"
       THEN /\ last.op = "withdraw"
            /\ Status(acct) = "Active"
            /\ acct.notified = last.pre.notified + 1
       ELSE /\ Status(acct) = Status(last.pre)
            /\ acct.notified = last.pre.notified

\* a withdraw on an Inactive account has failed for lack of funds, at a time
\* later than the last activity
C3_Witness ==
  /\ last.op = "withdraw" /\ last.result = "InsufficientFundsError"
  /\ Status(last.pre) = "Inactive"
  /\ last.time > last.pre.last_activity_time

\* C4 as stated: a withdraw with is_verified false fails with
\* VerificationRequiredError whatever the status, the balance and the amount,
\* and leaves the account as it was.
C4_UnverifiedAlwaysVerificationRequired ==
  (last.op = "withdraw" /\ ~last.is_verified) =>
    (last.result = "VerificationRequiredError" /\ acct = last.pre)

\* C4 as amended: a withdraw with is_verified false and an amount > 0 fails
\* with VerificationRequiredError whatever the status and the balance, and
\* leaves the account as it was.
C4_UnverifiedPositiveVerificationRequired ==
  (last.op = "withdraw" /\ ~last.is_verified /\ last.amount > 0) =>
    (last.result = "VerificationRequiredError" /\ acct = last.pre)

\* an unverified withdraw of a positive amount has been tried on a Closed account
C4_Witness ==
  /\ last.op = "withdraw" /\ ~last.is_verified /\ last.amount > 0
  /\ Status(last.pre) = "Closed"
  /\ last.result = "VerificationRequiredError"

\* C5: a deposit or withdraw of an amount <= 0 fails with ValueError (the
\* spec's InvalidAmount) in every status and for either value of is_verified,
\* and leaves the balance as it was.
C5_NonPositiveAmountInvalid ==
  (last.op \in {"deposit", "withdraw"} /\ last.amount <= 0) =>
    (last.result = "ValueError" /\ acct.balance = last.pre.balance)

\* a deposit of 0 has been tried on an Inactive account
C5_Witness ==
  /\ last.op = "deposit" /\ last.amount = 0
  /\ Status(last.pre) = "Inactive"
  /\ last.result = "ValueError"

\* C6 as stated: once close_account has been called, every deposit and every
\* withdraw fails with AccountClosedError.
C6_AfterCloseAlwaysAccountClosed ==
  (close_called /\ last.op \in {"deposit", "withdraw"}) =>
    last.result = "AccountClosedError"

\* C6 as amended: once close_account has been called, every deposit and every
\* withdraw fails: with ValueError when the amount is <= 0, with
\* VerificationRequiredError when a withdraw of an amount > 0 is not verified,
\* and with AccountClosedError otherwise.
C6_AfterCloseEveryOperationFails ==
  (close_called /\ last.op \in {"deposit", "withdraw"}) =>
    last.result =
      IF last.amount <= 0 THEN "ValueError"
      ELSE IF last.op = "withdraw" /\ ~last.is_verified
           THEN "VerificationRequiredError"
           ELSE "AccountClosedError"

\* a deposit of a positive amount has been tried after close_account and a
\* later call
C6_Witness ==
  /\ close_called /\ calls >= 3
  /\ last.op = "deposit" /\ last.amount > 0
  /\ last.result = "AccountClosedError"

\* C7 as stated: the status becomes Inactive only from Active and only by a
\* check_for_deactivation call.
C7_InactiveOnlyByDeactivationCheck ==
  (Status(acct) = "Inactive" /\ Status(last.pre) # "Inactive") =>
    (Status(last.pre) = "Active" /\ last.op = "check_for_deactivation")

\* C7 as amended: the status becomes Inactive only from Active and only by a
\* check_for_deactivation call or a call of the force_deactivate test helper.
C7_InactiveOnlyByDeactivation ==
  (Status(acct) = "Inactive" /\ Status(last.pre) # "Inactive") =>
    /\ Status(last.pre) = "Active"
    /\ last.op \in {"check_for_deactivation", "force_deactivate"}

\* check_for_deactivation has taken the account from Active to Inactive
C7_Witness ==
  /\ last.op = "check_for_deactivation"
  /\ Status(last.pre) = "Active"
  /\ Status(acct) = "Inactive"

\* C8: a deposit of an amount > 0 on an Inactive account succeeds, leaves the
\* account Active, invokes the notifier exactly once and adds the amount to
\* the balance.
C8_DepositReactivates ==
  (last.op = "deposit" /\ last.amount > 0 /\ Status(last.pre) = "Inactive") =>
    /\ last.result = "ok"
    /\ Status(acct) = "Active"
    /\ acct.notified = last.pre.notified + 1
    /\ acct.balance = last.pre.balance + last.amount

\* a positive deposit has been made on an Inactive account
C8_Witness ==
  /\ last.op = "deposit" /\ last.amount > 0
  /\ Status(last.pre) = "Inactive"
  /\ acct.balance > last.pre.balance

\* C9: the number of notifier invocations equals the number of
\* Inactive-to-Active transitions; such a transition invokes the notifier
\* exactly once and a call on an Active or Closed account never invokes it.
C9_NotifierOncePerReactivation ==
  /\ acct.notified = reactivations
  /\ (Status(last.pre) = "Inactive" /\ Status(acct) = "Active") =>
       acct.notified = last.pre.notified + 1
  /\ Status(last.pre) \in {"Active", "Closed"} =>
       acct.notified = last.pre.notified

\* a verified withdraw that succeeded has reactivated the account
C9_Witness ==
  /\ last.op = "withdraw" /\ last.result = "ok"
  /\ Status(last.pre) = "Inactive" /\ Status(acct) = "Active"
  /\ reactivations = 1 /\ acct.notified = 1

\* C10: a deposit of an amount > 0 on an account that is not Closed succeeds,
\* adds the amount to the balance and sets the activity time to the time of
\* the call.
C10_DepositAddsAndStampsTime ==
  (last.op = "deposit" /\ last.amount > 0 /\ Status(last.pre) # "Closed") =>
    /\ last.result = "ok"
    /\ acct.balance = last.pre.balance + last.amount
    /\ acct.last_activity_time = last.time

\* a positive deposit has been made on an Active account after time has passed
C10_Witness ==
  /\ last.op = "deposit" /\ last.amount > 0
  /\ Status(last.pre) = "Active"
  /\ last.time > last.pre.last_activity_time
  /\ acct.last_activity_time = last.time

\* C11: a verified withdraw of an amount with 0 < amount <= balance on an
\* account that is not Closed succeeds, takes the amount off the balance and
\* sets the activity time to the time of the call; amount = balance leaves 0.
C11_WithdrawSubtractsAndStampsTime ==
  (/\ last.op = "withdraw" /\ last.is_verified
   /\ 0 < last.amount /\ last.amount <= last.pre.balance
   /\ Status(last.pre) # "Closed") =>
    /\ last.result = "ok"
    /\ acct.balance = last.pre.balance - last.amount
    /\ acct.last_activity_time = last.time
    /\ (last.amount = last.pre.balance => acct.balance = 0)

\* the whole balance has been withdrawn from an Inactive account after time
\* has passed
C11_Witness ==
  /\ last.op = "withdraw" /\ last.is_verified
  /\ last.amount > 0 /\ last.amount = last.pre.balance
  /\ Status(last.pre) = "Inactive"
  /\ last.time > last.pre.last_activity_time
  /\ last.result = "ok"

\* C12: a verified withdraw of an amount > balance on an account that is not
\* Closed fails with InsufficientFundsError and leaves the balance as it was.
C12_OverdrawInsufficientFunds ==
  (/\ last.op = "withdraw" /\ last.is_verified
   /\ last.amount > 0 /\ last.amount > last.pre.balance
   /\ Status(last.pre) # "Closed") =>
    /\ last.result = "InsufficientFundsError"
    /\ acct.balance = last.pre.balance

\* a verified withdraw of more than a positive balance has been tried on an
\* Active account
C12_Witness ==
  /\ last.op = "withdraw" /\ last.is_verified
  /\ last.pre.balance > 0 /\ last.amount > last.pre.balance
  /\ Status(last.pre) = "Active"
  /\ last.result = "InsufficientFundsError"

\* C13: check_for_deactivation on an Active account makes it Inactive when
\* the time since the last activity is 11 or more and leaves it Active when
\* that time is 10 or less (the period is 10).
C13_DeactivatesStrictlyAfterPeriod ==
  (last.op = "check_for_deactivation" /\ Status(last.pre) = "Active") =>
    /\ (last.time - last.pre.last_activity_time >= 11) => Status(acct) = "Inactive"
    /\ (last.time - last.pre.last_activity_time <= 10) => Status(acct) = "Active"

\* check_for_deactivation has left an account Active exactly 10 seconds after
\* its last activity
C13_Witness ==
  /\ last.op = "check_for_deactivation"
  /\ Status(last.pre) = "Active"
  /\ last.time - last.pre.last_activity_time = 10
  /\ Status(acct) = "Active"

\* C14: check_for_deactivation changes nothing on an Inactive or Closed
\* account; in every status it leaves the activity time, the balance and the
\* number of notifier invocations as they were, and the only change it can
\* make is of the status, from Active to Inactive.
C14_DeactivationCheckFrame ==
  last.op = "check_for_deactivation" =>
    /\ last.result = "ok"
    /\ Status(last.pre) \in {"Inactive", "Closed"} => acct = last.pre
    /\ acct.last_activity_time = last.pre.last_activity_time
    /\ acct.balance = last.pre.balance
    /\ acct.notified = last.pre.notified
    /\ acct.account_holder = last.pre.account_holder
    /\ acct # last.pre => (Status(last.pre) = "Active" /\ Status(acct) = "Inactive")

\* check_for_deactivation has been called on an Inactive account more than
\* the period after its last activity
C14_Witness ==
  /\ last.op = "check_for_deactivation"
  /\ Status(last.pre) = "Inactive"
  /\ last.time - last.pre.last_activity_time > INACTIVITY_PERIOD_SECONDS

\* C15: close_account raises nothing, leaves the account Closed and leaves
\* the balance and the activity time as they were, from Active and from
\* Inactive whatever the balance; on a Closed account it changes nothing.
C15_CloseIsUnconditionalAndIdempotent ==
  last.op = "close_account" =>
    /\ last.result = "ok"
    /\ Status(acct) = "Closed"
    /\ acct.balance = last.pre.balance
    /\ acct.last_activity_time = last.pre.last_activity_time
    /\ Status(last.pre) = "Closed" => acct = last.pre

\* close_account has been called on a Closed account that holds a balance
C15_Witness ==
  /\ last.op = "close_account"
  /\ Status(last.pre) = "Closed"
  /\ last.pre.balance > 0
  /\ acct = last.pre

\* C19: is_closed and is_active are never both true.
C19_FlagsConsistent == ~(acct.is_closed /\ acct.is_active)

\* close_account has closed an account that was active
C19_Witness ==
  /\ last.op = "close_account"
  /\ last.pre.is_active /\ ~last.pre.is_closed
  /\ acct.is_closed /\ ~acct.is_active

\* C20: the activity time is changed only by a deposit or a withdraw that
\* succeeds and by set_last_activity_time; a reactivation by itself, a failed
\* deposit or withdraw, close_account, check_for_deactivation and
\* force_deactivate leave it as it was.
C20_ActivityTimeOnlyBySuccess ==
  acct.last_activity_time # last.pre.last_activity_time =>
    /\ last.op \in {"deposit", "withdraw", "set_last_activity_time"}
    /\ last.result = "ok"

\* a deposit has failed on a Closed account at a time later than the last
\* activity
C20_Witness ==
  /\ last.op = "deposit" /\ last.result = "AccountClosedError"
  /\ last.time > last.pre.last_activity_time
  /\ acct.last_activity_time = last.pre.last_activity_time

\* C16: a construction with a negative initial balance raises and yields no
\* object; a construction with an initial balance >= 0 yields an Active
\* account with that balance and the holder name given.
C16_ConstructionRejectsNegative ==
  last.op = "__init__" =>
    IF last.amount < 0
    THEN last.result = "ValueError" /\ acct = <<>>
    ELSE /\ last.result = "ok"
         /\ Status(acct) = "Active"
         /\ acct.is_active /\ ~acct.is_closed
         /\ acct.balance = last.amount
         /\ acct.account_holder = last.account_holder

\* a construction with initial balance -1 has been tried
C16_Witness ==
  /\ last.op = "__init__" /\ last.amount = -1
  /\ last.result = "ValueError"
  /\ acct = <<>>

\* C17: after a deposit or a withdraw that failed on an account that was not
\* Closed, the next call, if it is a deposit of an amount > 0, succeeds and
\* adds the amount to the balance the account had before the failed call.
C17_UsableAfterFailure ==
  (failed_before.failed /\ last.op = "deposit" /\ last.amount > 0) =>
    /\ last.result = "ok"
    /\ acct.balance = failed_before.balance + last.amount

\* a positive deposit has been made right after a failed call on an account
\* that was Inactive and not Closed
C17_Witness ==
  /\ failed_before.failed
  /\ last.op = "deposit" /\ last.amount > 0 /\ last.result = "ok"
  /\ calls = 3
  /\ acct.notified = 1

\* C18: when two verified withdraw calls run concurrently, the balance is
\* never negative, and when both have returned the balance is the initial
\* balance less the amounts of the calls that succeeded.
C18_ConcurrentWithdrawalsKeepFunds ==
  /\ acct.balance >= 0
  /\ (\A t \in Threads : threads[t].pc = "done") =>
       acct.balance = last.pre.balance - (Withdrawn(1) + Withdrawn(2))
====
